---- MODULE Spec2Model ----
(***************************************************************************)
(* Model of src/app.py: a Flask application with two tables (Admin,        *)
(* Customer), a cookie session per client, two access-control decorators   *)
(* and the login / logout / CRUD route handlers.                           *)
(*                                                                         *)
(* The server runs every request in a thread of its own, and a handler     *)
(* talks to the database one statement at a time.  Every route handler is  *)
(* therefore an operator from a request (with the place it has reached and *)
(* the row it has loaded) and the tables to the outcome of running the     *)
(* handler up to and including its next database statement: the tables     *)
(* after it and either the answer or the request at its next place.  A     *)
(* request is received (its cookie is read) in one step, runs each of its  *)
(* database statements in a step of its own and is answered (its cookie    *)
(* written back) in a last step; steps of other requests come in between.  *)
(* The two decorators are operators wrapping a handler body, composed in   *)
(* the order of the source.                                                *)
(***************************************************************************)
EXTENDS Integers, FiniteSets, Sequences, TLC

VARIABLES
    admins,     \* rows of table Admin: [id, username, email, password]
    customers,  \* rows of table Customer
    session,    \* client -> Flask session: a function on a subset of SessionKeys
    resp,       \* the response to the last request answered
    running,    \* FALSE once the module-level startup code has raised
    inflight,   \* thread -> the request the thread has received and not yet
                \* answered, at the place it has reached, or Idle
    drawn       \* number of password digests the database has stored so far

vars == <<admins, customers, session, resp, running, inflight, drawn>>

\* ------------------------------------------------------------------ bounds

\* Largest primary key the model lets a table hand out.
MaxId == 2
\* Number of distinct values random.randint can return in the model.
NumAccountNumbers == 2
\* Number of password digests the model lets the database store over a run.
MaxDigests == 4

\* Lower end of random.randint(10000, 99999).
AccountNumberLow == 10000

\* The clients (browsers, each with its own session cookie) of a run are the
\* domain of `session`, fixed by the initial state.
Clients == DOMAIN session

\* The threads that can hold a request between two of its database
\* statements while other requests are served: the domain of `inflight`,
\* fixed by the initial state.
Threads == DOMAIN inflight

\* Python's None (a form field that was not submitted, a NULL column).
None == "<None>"

\* A thread that holds no request; also the `next` of an answered request.
Idle == [op |-> "idle"]

\* ------------------------------------------------------------- primitives

\* Python truthiness of an optional string: `not x`.
Falsy(x) == x = None \/ x = ""

\* werkzeug generate_password_hash: a digest that embeds a random salt.
generate_password_hash(p, salt) == [plain |-> p, salt |-> salt]

\* werkzeug check_password_hash: recompute with the embedded salt and compare.
check_password_hash(h, p) == generate_password_hash(p, h.salt) = h

\* The salt generate_password_hash draws is random: it is carried by no
\* digest made before.  Digests are only ever compared for equality, so the
\* model numbers the salts: the digest a step stores carries the number of
\* digests stored before it, plus one.  A request to a route that hashes a
\* password has a field `salt` for the salt its next step draws, 0 while the
\* request is held.
FreshSalt == drawn + 1
Draw(q, salt) == IF "salt" \in DOMAIN q THEN [q EXCEPT !.salt = salt] ELSE q

\* float(request.form.get('balance', 0)): the strings the model submits.
FloatParses(b) == b \in {None, "0", "100"}
ParseFloat(b) == IF b = "100" THEN 100 ELSE 0

\* f"ACC{random.randint(10000, 99999)}" for a drawn integer n.
AccountNumbers == AccountNumberLow .. (AccountNumberLow + NumAccountNumbers - 1)
FormatAccountNumber(n) == <<"ACC", n>>

Max(S) == CHOOSE x \in S : \A y \in S : y <= x
Min(S) == CHOOSE x \in S : \A y \in S : x <= y

\* INTEGER PRIMARY KEY of SQLite: one more than the largest key in the table.
NextId(table) == IF table = {} THEN 1 ELSE Max({r.id : r \in table}) + 1

\* Query.first() over the matching rows: the row of lowest key.  The result
\* None of the source is the case rows = {}, tested with Found.
Found(rows) == rows # {}
First(rows) == CHOOSE r \in rows : r.id = Min({x.id : x \in rows})

\* Query.get(id) / get_or_404(id): the rows of that key (at most one).
Get(table, id) == {r \in table : r.id = id}

\* ----------------------------------------------------------------- schema

\* Admin: unique username, unique email, primary key id; all NOT NULL.
AdminConstraints(t) ==
    /\ \A a, b \in t : a.id = b.id => a = b
    /\ \A a, b \in t : a.username = b.username => a = b
    /\ \A a, b \in t : a.email = b.email => a = b
    /\ \A a \in t : a.username # None /\ a.email # None

\* Customer: unique email, unique bank_account_number; status is nullable.
CustomerConstraints(t) ==
    /\ \A a, b \in t : a.id = b.id => a = b
    /\ \A a, b \in t : a.email = b.email => a = b
    /\ \A a, b \in t : a.bank_account_number = b.bank_account_number => a = b
    /\ \A a \in t : a.full_name # None /\ a.email # None /\ a.account_type # None

\* ------------------------------------------------------------- responses

Redirect(endpoint, notice) == [code |-> 302, to |-> endpoint, flash |-> notice]
Render(template) == [code |-> 200, to |-> template, flash |-> ""]
RenderFlash(template, notice) == [code |-> 200, to |-> template, flash |-> notice]
NotFound == [code |-> 404, to |-> "", flash |-> ""]
ServerError(exc) == [code |-> 500, to |-> exc, flash |-> ""]
NoResponse == [code |-> 0, to |-> "", flash |-> ""]

\* --------------------------------------------------------------- sessions

SessionKeys == {"user_id", "username", "user_role"}
EmptySession == [k \in {} |-> None]

\* session[key] = value
SetKey(s, key, value) ==
    [k \in DOMAIN s \cup {key} |-> IF k = key THEN value ELSE s[k]]

\* ----------------------------------------------------- outcomes of a step
\* The outcome of running request q on tables A (Admin) and K (Customer) up
\* to its next database statement: the tables after it; `next`, the request
\* at the place it has reached, or Idle when it has been answered; the
\* answer; the session object of the request, which starts as a copy of the
\* cookie the request carried; and whether the handler modified that object,
\* in which case Flask sends it back as the client's new cookie.  flash()
\* stores its message in the session, so every answer with a notice does.

\* The handler returns r.
Respond(q, A, K, r) ==
    [admins |-> A, customers |-> K, client |-> q.client, next |-> Idle,
     resp |-> r, session |-> q.cookie, modified |-> r.flash # ""]

\* The handler has run a query and goes on to its statement at place pc.
Continue(q, A, K, pc) ==
    [admins |-> A, customers |-> K, client |-> q.client,
     next |-> [q EXCEPT !.pc = pc],
     resp |-> NoResponse, session |-> q.cookie, modified |-> FALSE]

\* The same, keeping the rows the query returned.
ContinueWith(q, A, K, pc, rows) ==
    [admins |-> A, customers |-> K, client |-> q.client,
     next |-> [q EXCEPT !.pc = pc, !.rows = rows],
     resp |-> NoResponse, session |-> q.cookie, modified |-> FALSE]

\* db.session.commit() of new table contents, then `return r`: the unique
\* and NOT NULL constraints are checked by the database; a violation raises
\* IntegrityError, the transaction is rolled back and the request ends in a
\* 500, before the flash of the success notice.
Commit(q, A, K, newAdmins, newCustomers, r) ==
    IF AdminConstraints(newAdmins) /\ CustomerConstraints(newCustomers)
    THEN [admins |-> newAdmins, customers |-> newCustomers, client |-> q.client,
          next |-> Idle, resp |-> r, session |-> q.cookie, modified |-> r.flash # ""]
    ELSE Respond(q, A, K, ServerError("IntegrityError"))

\* ------------------------------------------------------------- decorators

\* Mutant: the route is left without the login_required decorator.
login_required_missing(q, A, K, f) == f

\* login_required: the wrapped view runs only when 'user_id' is in the session.
login_required(q, A, K, f) ==
    IF "user_id" \notin DOMAIN q.cookie
    THEN Respond(q, A, K, Redirect("login", "Please log in to access this page"))
    ELSE f

\* Mutant: any session that carries a role passes, whatever the role.
admin_required_any_role(q, A, K, f) ==
    IF "user_role" \notin DOMAIN q.cookie
    THEN Respond(q, A, K,
                 Redirect("dashboard", "You do not have permission to access this page"))
    ELSE f

\* admin_required: the wrapped view runs only when user_role is 'admin'.
admin_required(q, A, K, f) ==
    IF "user_role" \notin DOMAIN q.cookie \/ q.cookie["user_role"] # "admin"
    THEN Respond(q, A, K,
                 Redirect("dashboard", "You do not have permission to access this page"))
    ELSE f

\* ------------------------------------------------------- login and logout

\* Mutant: the role is not stored with the identity and the display name.
Establish_without_role(s, id, name, role) ==
    SetKey(SetKey(s, "user_id", id), "username", name)

\* The three assignments of a successful login, in source order.
Establish(s, id, name, role) ==
    SetKey(SetKey(SetKey(s, "user_id", id), "username", name), "user_role", role)

\* The answer of a successful login: the session object with the three keys.
LoggedIn(q, A, K, id, name, role, endpoint, notice) ==
    [admins |-> A, customers |-> K, client |-> q.client, next |-> Idle,
     resp |-> Redirect(endpoint, notice),
     session |-> Establish(q.cookie, id, name, role), modified |-> TRUE]

\* login from its customer lookup on (lines 85-94).
login_customer(q, A, K) ==
    LET customer == {k \in K : k.email = q.username}
    IN  IF /\ Found(customer)
           /\ First(customer).status = "active"
           /\ check_password_hash(First(customer).password, q.password)
        THEN LoggedIn(q, A, K, First(customer).id, First(customer).full_name,
                      "customer", "customer_dashboard", "Welcome, Customer!")
        ELSE Respond(q, A, K, RenderFlash("login.html",
                                          "Invalid credentials or inactive account"))

\* Mutant: the customer table is consulted before the admin table.
login_customer_first(q, A, K) ==
    IF q.method # "POST" THEN Respond(q, A, K, Render("login.html")) ELSE
    IF q.pc = "start"
    THEN LET customer == {k \in K : k.email = q.username}
         IN  IF /\ Found(customer)
                /\ First(customer).status = "active"
                /\ check_password_hash(First(customer).password, q.password)
             THEN login_customer(q, A, K)
             ELSE Continue(q, A, K, "customer")
    ELSE LET admin == {a \in A : a.username = q.username}
         IN  IF Found(admin) /\ check_password_hash(First(admin).password, q.password)
             THEN LoggedIn(q, A, K, First(admin).id, First(admin).username,
                           "admin", "admin_dashboard", "Welcome, Admin!")
             ELSE Respond(q, A, K, RenderFlash("login.html",
                                               "Invalid credentials or inactive account"))

\* Mutant: once an administrator has the submitted username, only its password
\* is tried; a mismatch ends the attempt.
login_admin_shadows(q, A, K) ==
    IF q.method # "POST" THEN Respond(q, A, K, Render("login.html")) ELSE
    IF q.pc = "start"
    THEN LET admin == {a \in A : a.username = q.username}
         IN  IF Found(admin)
             THEN IF check_password_hash(First(admin).password, q.password)
                  THEN LoggedIn(q, A, K, First(admin).id, First(admin).username,
                                "admin", "admin_dashboard", "Welcome, Admin!")
                  ELSE Respond(q, A, K, RenderFlash("login.html",
                                        "Invalid credentials or inactive account"))
             ELSE Continue(q, A, K, "customer")
    ELSE login_customer(q, A, K)

\* Mutant: the customer's status is not looked at.
login_ignores_status(q, A, K) ==
    IF q.method # "POST" THEN Respond(q, A, K, Render("login.html")) ELSE
    IF q.pc = "start"
    THEN LET admin == {a \in A : a.username = q.username}
         IN  IF Found(admin) /\ check_password_hash(First(admin).password, q.password)
             THEN LoggedIn(q, A, K, First(admin).id, First(admin).username,
                           "admin", "admin_dashboard", "Welcome, Admin!")
             ELSE Continue(q, A, K, "customer")
    ELSE LET customer == {k \in K : k.email = q.username}
         IN  IF /\ Found(customer)
                /\ check_password_hash(First(customer).password, q.password)
             THEN LoggedIn(q, A, K, First(customer).id, First(customer).full_name,
                           "customer", "customer_dashboard", "Welcome, Customer!")
             ELSE Respond(q, A, K, RenderFlash("login.html",
                                               "Invalid credentials or inactive account"))

\* /login.  Places: "start" (the Admin query of line 77), "customer" (the
\* Customer query of line 86).
login(q, A, K) ==
    IF q.method # "POST" THEN Respond(q, A, K, Render("login.html")) ELSE
    IF q.pc = "start"
    THEN LET admin == {a \in A : a.username = q.username}
         IN  IF Found(admin) /\ check_password_hash(First(admin).password, q.password)
             THEN LoggedIn(q, A, K, First(admin).id, First(admin).username,
                           "admin", "admin_dashboard", "Welcome, Admin!")
             ELSE Continue(q, A, K, "customer")
    ELSE login_customer(q, A, K)

\* /: the landing page, open to every client.
index(q, A, K) == Respond(q, A, K, Render("index.html"))

\* /logout: session.clear()
logout(q, A, K) ==
    [admins |-> A, customers |-> K, client |-> q.client, next |-> Idle,
     resp |-> Redirect("login", "You have been logged out"),
     session |-> EmptySession, modified |-> TRUE]

\* /dashboard
dashboard(q, A, K) ==
    login_required(q, A, K,
        IF "user_role" \in DOMAIN q.cookie /\ q.cookie["user_role"] = "admin"
        THEN Respond(q, A, K, Redirect("admin_dashboard", ""))
        ELSE Respond(q, A, K, Redirect("customer_dashboard", "")))

\* /customer/dashboard: the role test, then Customer.query.get of line 346
\* and the page, which is rendered whether or not the row is found.
customer_dashboard(q, A, K) ==
    login_required(q, A, K,
        IF ~("user_role" \in DOMAIN q.cookie /\ q.cookie["user_role"] = "customer")
        THEN Respond(q, A, K, Redirect("dashboard", "Access denied"))
        ELSE Respond(q, A, K, Render("customer/dashboard.html")))

\* ------------------------------------------------------------ admin routes

\* /admin/dashboard.  Places: "start" (Admin.query.count() of line 117),
\* "customer_count" (line 118), "active_customers" (line 119); the counts go
\* into the page, which the model does not look into.
admin_dashboard(q, A, K) ==
    login_required(q, A, K, admin_required(q, A, K,
        IF q.pc = "start" THEN Continue(q, A, K, "customer_count")
        ELSE IF q.pc = "customer_count" THEN Continue(q, A, K, "active_customers")
        ELSE Respond(q, A, K, Render("admin/dashboard.html"))))

\* /admin/admins: Admin.query.all() of line 129 and the page.
admin_list(q, A, K) ==
    login_required(q, A, K, admin_required(q, A, K,
        Respond(q, A, K, Render("admin/admin_list.html"))))

\* admin_add: Admin(...), db.session.add, db.session.commit and the answer.
admin_add_insert(q, A, K) ==
    LET id == NextId(A)
        new_admin == [id |-> id,
                      username |-> q.form.username,
                      email |-> q.form.email,
                      password |-> generate_password_hash(q.form.password, q.salt)]
    IN  Commit(q, A, K, A \cup {new_admin}, K,
               Redirect("admin_list", "Admin created successfully"))

\* Mutant: only the username is looked up before the insert.
admin_add_username_only(q, A, K) ==
    login_required(q, A, K, admin_required(q, A, K,
        IF q.method # "POST" THEN Respond(q, A, K, Render("admin/admin_form.html")) ELSE
        IF q.pc = "start"
        THEN IF Falsy(q.form.username) \/ Falsy(q.form.email) \/ Falsy(q.form.password)
             THEN Respond(q, A, K, Redirect("admin_add", "All fields are required"))
             ELSE IF q.form.password # q.form.confirm_password
             THEN Respond(q, A, K, Redirect("admin_add", "Passwords do not match"))
             ELSE IF Found({a \in A : a.username = q.form.username})
             THEN Respond(q, A, K, Redirect("admin_add", "Username already exists"))
             ELSE Continue(q, A, K, "insert")
        ELSE admin_add_insert(q, A, K)))

\* /admin/admins/add.  Places: "start" (the validation and the username
\* query of line 151), "email" (the query of line 155), "insert" (line 166).
admin_add(q, A, K) ==
    login_required(q, A, K, admin_required(q, A, K,
        IF q.method # "POST" THEN Respond(q, A, K, Render("admin/admin_form.html")) ELSE
        IF q.pc = "start"
        THEN IF Falsy(q.form.username) \/ Falsy(q.form.email) \/ Falsy(q.form.password)
             THEN Respond(q, A, K, Redirect("admin_add", "All fields are required"))
             ELSE IF q.form.password # q.form.confirm_password
             THEN Respond(q, A, K, Redirect("admin_add", "Passwords do not match"))
             ELSE IF Found({a \in A : a.username = q.form.username})
             THEN Respond(q, A, K, Redirect("admin_add", "Username already exists"))
             ELSE Continue(q, A, K, "email")
        ELSE IF q.pc = "email"
        THEN IF Found({a \in A : a.email = q.form.email})
             THEN Respond(q, A, K, Redirect("admin_add", "Email already exists"))
             ELSE Continue(q, A, K, "insert")
        ELSE admin_add_insert(q, A, K)))

\* admin_edit: the assignments of lines 200-203 to the row loaded at line
\* 177 and db.session.commit().  The ORM writes the columns whose value
\* differs from the loaded one, with UPDATE ... WHERE id = ?; it writes
\* nothing when none differs, and raises StaleDataError when the UPDATE
\* matches no row.
admin_edit_update(q, A, K) ==
    LET loaded == First(q.rows)
        stored == Get(A, q.id)
        dirty == \/ q.form.username # loaded.username
                 \/ q.form.email # loaded.email
                 \/ ~Falsy(q.form.password)
        updated ==
            [First(stored) EXCEPT
                !.username = IF q.form.username # loaded.username
                             THEN q.form.username ELSE @,
                !.email = IF q.form.email # loaded.email THEN q.form.email ELSE @,
                !.password = IF ~Falsy(q.form.password)
                             THEN generate_password_hash(q.form.password, q.salt)
                             ELSE @]
    IN  IF ~dirty
        THEN Respond(q, A, K, Redirect("admin_list", "Admin updated successfully"))
        ELSE IF ~Found(stored)
        THEN Respond(q, A, K, ServerError("StaleDataError"))
        ELSE Commit(q, A, K, (A \ stored) \cup {updated}, K,
                    Redirect("admin_list", "Admin updated successfully"))

\* Mutant: the submitted password is hashed and stored even when it is blank.
admin_edit_always_hashes(q, A, K) ==
    login_required(q, A, K, admin_required(q, A, K,
        IF q.pc = "start"
        THEN IF ~Found(Get(A, q.id)) THEN Respond(q, A, K, NotFound) ELSE
             IF q.method # "POST"
             THEN Respond(q, A, K, Render("admin/admin_form.html")) ELSE
             IF Falsy(q.form.username) \/ Falsy(q.form.email)
             THEN Respond(q, A, K,
                          Redirect("admin_edit", "Username and email are required"))
             ELSE ContinueWith(q, A, K, "username", Get(A, q.id))
        ELSE IF q.pc = "username"
        THEN LET existing_admin == {a \in A : a.username = q.form.username}
             IN  IF Found(existing_admin) /\ First(existing_admin).id # q.id
                 THEN Respond(q, A, K, Redirect("admin_edit", "Username already exists"))
                 ELSE Continue(q, A, K, "email")
        ELSE IF q.pc = "email"
        THEN LET existing_admin == {a \in A : a.email = q.form.email}
             IN  IF Found(existing_admin) /\ First(existing_admin).id # q.id
                 THEN Respond(q, A, K, Redirect("admin_edit", "Email already exists"))
                 ELSE Continue(q, A, K, "update")
        ELSE LET stored == Get(A, q.id)
                 updated ==
                    [First(stored) EXCEPT
                        !.username = q.form.username,
                        !.email = q.form.email,
                        !.password = generate_password_hash(q.form.password, q.salt)]
             IN  IF ~Found(stored)
                 THEN Respond(q, A, K, ServerError("StaleDataError"))
                 ELSE Commit(q, A, K, (A \ stored) \cup {updated}, K,
                             Redirect("admin_list", "Admin updated successfully"))))

\* /admin/admins/edit/<id>.  Places: "start" (get_or_404 of line 177 and the
\* validation), "username" (the query of line 189), "email" (the query of
\* line 194), "update" (line 205).
admin_edit(q, A, K) ==
    login_required(q, A, K, admin_required(q, A, K,
        IF q.pc = "start"
        THEN IF ~Found(Get(A, q.id)) THEN Respond(q, A, K, NotFound) ELSE
             IF q.method # "POST"
             THEN Respond(q, A, K, Render("admin/admin_form.html")) ELSE
             IF Falsy(q.form.username) \/ Falsy(q.form.email)
             THEN Respond(q, A, K,
                          Redirect("admin_edit", "Username and email are required"))
             ELSE ContinueWith(q, A, K, "username", Get(A, q.id))
        ELSE IF q.pc = "username"
        THEN LET existing_admin == {a \in A : a.username = q.form.username}
             IN  IF Found(existing_admin) /\ First(existing_admin).id # q.id
                 THEN Respond(q, A, K, Redirect("admin_edit", "Username already exists"))
                 ELSE Continue(q, A, K, "email")
        ELSE IF q.pc = "email"
        THEN LET existing_admin == {a \in A : a.email = q.form.email}
             IN  IF Found(existing_admin) /\ First(existing_admin).id # q.id
                 THEN Respond(q, A, K, Redirect("admin_edit", "Email already exists"))
                 ELSE Continue(q, A, K, "update")
        ELSE admin_edit_update(q, A, K)))

\* admin_delete: db.session.delete, db.session.commit and the answer.  A
\* DELETE that matches no row is not an error.
admin_delete_commit(q, A, K) ==
    Commit(q, A, K, A \ Get(A, q.id), K,
           Redirect("admin_list", "Admin deleted successfully"))

\* Mutant: the comparison with the session's user_id is left out.
admin_delete_unguarded(q, A, K) ==
    login_required(q, A, K, admin_required(q, A, K,
        IF q.pc = "start"
        THEN IF ~Found(Get(A, q.id)) THEN Respond(q, A, K, NotFound)
             ELSE Continue(q, A, K, "delete")
        ELSE admin_delete_commit(q, A, K)))

\* /admin/admins/delete/<id>.  Places: "start" (get_or_404 of line 215 and
\* the comparison with the session), "delete" (line 223).
admin_delete(q, A, K) ==
    login_required(q, A, K, admin_required(q, A, K,
        IF q.pc = "start"
        THEN IF ~Found(Get(A, q.id)) THEN Respond(q, A, K, NotFound) ELSE
             LET admin == First(Get(A, q.id))
             IN  IF admin.id = q.cookie["user_id"]
                 THEN Respond(q, A, K,
                              Redirect("admin_list", "You cannot delete your own account"))
                 ELSE Continue(q, A, K, "delete")
        ELSE admin_delete_commit(q, A, K)))

\* --------------------------------------------------------- customer routes

\* /admin/customers: Customer.query.all() of line 232 and the page.
customer_list(q, A, K) ==
    login_required(q, A, K, admin_required(q, A, K,
        Respond(q, A, K, Render("admin/customer_list.html"))))

\* customer_add: Customer(...), db.session.add, db.session.commit and the
\* answer; q.n is the integer random.randint returned.
customer_add_insert(q, A, K) ==
    LET id == NextId(K)
        new_customer ==
            [id |-> id,
             full_name |-> q.form.full_name,
             email |-> q.form.email,
             password |-> generate_password_hash(q.form.password, q.salt),
             bank_account_number |-> FormatAccountNumber(q.n),
             account_type |-> q.form.account_type,
             balance |-> ParseFloat(q.form.balance),
             status |-> IF Falsy(q.form.status) THEN "active" ELSE q.form.status]
    IN  Commit(q, A, K, A, K \cup {new_customer},
               Redirect("customer_list", "Customer created successfully"))

\* /admin/customers/add.  Places: "start" (the parsing, the validation and
\* the email query of line 261), "insert" (line 276).
customer_add(q, A, K) ==
    login_required(q, A, K, admin_required(q, A, K,
        IF q.method # "POST"
        THEN Respond(q, A, K, Render("admin/customer_form.html")) ELSE
        IF q.pc = "start"
        THEN IF ~FloatParses(q.form.balance)
             THEN Respond(q, A, K, ServerError("ValueError")) ELSE
             IF \/ Falsy(q.form.full_name) \/ Falsy(q.form.email)
                \/ Falsy(q.form.account_type) \/ Falsy(q.form.password)
             THEN Respond(q, A, K, Redirect("customer_add",
                            "Name, email, password and account type are required"))
             ELSE IF q.form.password # q.form.confirm_password
             THEN Respond(q, A, K, Redirect("customer_add", "Passwords do not match"))
             ELSE IF Found({k \in K : k.email = q.form.email})
             THEN Respond(q, A, K, Redirect("customer_add", "Email already exists"))
             ELSE Continue(q, A, K, "insert")
        ELSE customer_add_insert(q, A, K)))

\* customer_edit: the assignments of lines 313-320 to the row loaded at line
\* 287 and db.session.commit(); the ORM writes the columns whose value
\* differs from the loaded one, as in admin_edit.
customer_edit_update(q, A, K) ==
    LET loaded == First(q.rows)
        stored == Get(K, q.id)
        dirty == \/ q.form.full_name # loaded.full_name
                 \/ q.form.email # loaded.email
                 \/ q.form.account_type # loaded.account_type
                 \/ ParseFloat(q.form.balance) # loaded.balance
                 \/ q.form.status # loaded.status
                 \/ ~Falsy(q.form.password)
        updated ==
            [First(stored) EXCEPT
                !.full_name = IF q.form.full_name # loaded.full_name
                              THEN q.form.full_name ELSE @,
                !.email = IF q.form.email # loaded.email THEN q.form.email ELSE @,
                !.account_type = IF q.form.account_type # loaded.account_type
                                 THEN q.form.account_type ELSE @,
                !.balance = IF ParseFloat(q.form.balance) # loaded.balance
                            THEN ParseFloat(q.form.balance) ELSE @,
                !.status = IF q.form.status # loaded.status THEN q.form.status ELSE @,
                !.password = IF ~Falsy(q.form.password)
                             THEN generate_password_hash(q.form.password, q.salt)
                             ELSE @]
    IN  IF ~dirty
        THEN Respond(q, A, K, Redirect("customer_list", "Customer updated successfully"))
        ELSE IF ~Found(stored)
        THEN Respond(q, A, K, ServerError("StaleDataError"))
        ELSE Commit(q, A, K, A, (K \ stored) \cup {updated},
                    Redirect("customer_list", "Customer updated successfully"))

\* /admin/customers/edit/<id>.  Places: "start" (get_or_404 of line 287, the
\* parsing and the validation), "email" (the query of line 307), "update"
\* (line 322).
customer_edit(q, A, K) ==
    login_required(q, A, K, admin_required(q, A, K,
        IF q.pc = "start"
        THEN IF ~Found(Get(K, q.id)) THEN Respond(q, A, K, NotFound) ELSE
             IF q.method # "POST"
             THEN Respond(q, A, K, Render("admin/customer_form.html")) ELSE
             IF ~FloatParses(q.form.balance)
             THEN Respond(q, A, K, ServerError("ValueError")) ELSE
             IF \/ Falsy(q.form.full_name) \/ Falsy(q.form.email)
                \/ Falsy(q.form.account_type)
             THEN Respond(q, A, K, Redirect("customer_edit",
                            "Name, email and account type are required"))
             ELSE IF ~Falsy(q.form.password) /\ q.form.password # q.form.confirm_password
             THEN Respond(q, A, K, Redirect("customer_edit", "Passwords do not match"))
             ELSE ContinueWith(q, A, K, "email", Get(K, q.id))
        ELSE IF q.pc = "email"
        THEN LET existing_customer == {k \in K : k.email = q.form.email}
             IN  IF Found(existing_customer) /\ First(existing_customer).id # q.id
                 THEN Respond(q, A, K, Redirect("customer_edit", "Email already exists"))
                 ELSE Continue(q, A, K, "update")
        ELSE customer_edit_update(q, A, K)))

\* /admin/customers/delete/<id>.  Places: "start" (get_or_404 of line 332),
\* "delete" (line 334).
customer_delete(q, A, K) ==
    login_required(q, A, K, admin_required(q, A, K,
        IF q.pc = "start"
        THEN IF ~Found(Get(K, q.id)) THEN Respond(q, A, K, NotFound)
             ELSE Continue(q, A, K, "delete")
        ELSE Commit(q, A, K, A, K \ Get(K, q.id),
                    Redirect("customer_list", "Customer deleted successfully"))))

\* ---------------------------------------------------------------- startup

\* The default admin the module creates when it is imported; salt is the
\* salt generate_password_hash draws.
default_admin(table, salt) ==
    [id |-> NextId(table), username |-> "admin", email |-> "admin@example.com",
     password |-> generate_password_hash("admin123", salt)]

\* Module import: db.create_all(), then the default admin unless a row with
\* username 'admin' exists.  The result is the new Admin table, or the table
\* unchanged with ok = FALSE when the commit raises IntegrityError.
seed(table, salt) ==
    IF ~Found({a \in table : a.username = "admin"})
    THEN LET new == table \cup {default_admin(table, salt)}
         IN  IF AdminConstraints(new) THEN [table |-> new, ok |-> TRUE]
                                      ELSE [table |-> table, ok |-> FALSE]
    ELSE [table |-> table, ok |-> TRUE]

\* --------------------------------------------------------------- requests

\* A request of client c as the server receives it, before its view function
\* has run: the cookie it carries is the client's session when it is sent.
SimpleRequest(c, op) ==
    [client |-> c, op |-> op, pc |-> "start", cookie |-> session[c]]

LoginRequest(c, method, username, password) ==
    [client |-> c, op |-> "login", pc |-> "start", cookie |-> session[c],
     method |-> method, username |-> username, password |-> password]

AdminAddRequest(c, method, form) ==
    [client |-> c, op |-> "admin_add", pc |-> "start", cookie |-> session[c],
     method |-> method, form |-> form, salt |-> 0]

AdminEditRequest(c, id, method, form) ==
    [client |-> c, op |-> "admin_edit", pc |-> "start", cookie |-> session[c],
     method |-> method, form |-> form, id |-> id, rows |-> {}, salt |-> 0]

AdminDeleteRequest(c, id) ==
    [client |-> c, op |-> "admin_delete", pc |-> "start", cookie |-> session[c],
     id |-> id]

CustomerAddRequest(c, method, form, n) ==
    [client |-> c, op |-> "customer_add", pc |-> "start", cookie |-> session[c],
     method |-> method, form |-> form, n |-> n, salt |-> 0]

CustomerEditRequest(c, id, method, form) ==
    [client |-> c, op |-> "customer_edit", pc |-> "start", cookie |-> session[c],
     method |-> method, form |-> form, id |-> id, rows |-> {}, salt |-> 0]

CustomerDeleteRequest(c, id) ==
    [client |-> c, op |-> "customer_delete", pc |-> "start", cookie |-> session[c],
     id |-> id]

\* The routing table: the view function of the request, run on tables A and K
\* up to its next database statement.
Handle(q, A, K) ==
    CASE q.op = "index" -> index(q, A, K)
      [] q.op = "login" -> login(q, A, K)
      [] q.op = "logout" -> logout(q, A, K)
      [] q.op = "dashboard" -> dashboard(q, A, K)
      [] q.op = "customer_dashboard" -> customer_dashboard(q, A, K)
      [] q.op = "admin_dashboard" -> admin_dashboard(q, A, K)
      [] q.op = "admin_list" -> admin_list(q, A, K)
      [] q.op = "admin_add" -> admin_add(q, A, K)
      [] q.op = "admin_edit" -> admin_edit(q, A, K)
      [] q.op = "admin_delete" -> admin_delete(q, A, K)
      [] q.op = "customer_list" -> customer_list(q, A, K)
      [] q.op = "customer_add" -> customer_add(q, A, K)
      [] q.op = "customer_edit" -> customer_edit(q, A, K)
      [] q.op = "customer_delete" -> customer_delete(q, A, K)

\* The request run from where it stands to its return with no statement of
\* another request in between.
RECURSIVE Run(_, _, _)
Run(q, A, K) ==
    LET r == Handle(q, A, K)
    IN  IF r.next = Idle THEN r ELSE Run(r.next, r.admins, r.customers)

\* The digests stored in the tables, and the number of digests stored so far
\* once the tables are A and K.
SaltsOf(A, K) == {a.password.salt : a \in A} \cup {k.password.salt : k \in K}
DrawnAfter(A, K) == Max({drawn} \cup SaltsOf(A, K))

\* A view function that has returned outcome r and whose response has not
\* been sent yet.
Returned(q, r) ==
    [client |-> q.client, op |-> q.op, pc |-> "return",
     resp |-> r.resp, session |-> r.session, modified |-> r.modified]

\* ----------------------------------------------------------------- inputs

Ids == 1 .. MaxId
Identifiers == {"admin", "jane@x.com", "admin@example.com"}
Passwords == {"admin123", "pw1"}

ValidAdminForms ==
    [username : {"admin", "jane@x.com"},
     email : {"admin@example.com", "jane@x.com"},
     password : Passwords,
     confirm_password : {None}]

\* Forms that confirm the password, and forms that leave a field out, leave
\* the password blank or mistype the confirmation.
AdminForms ==
    {[f EXCEPT !.confirm_password = f.password] : f \in ValidAdminForms}
    \cup {[username |-> None, email |-> "jane@x.com",
           password |-> "pw1", confirm_password |-> "pw1"],
          [username |-> "jane@x.com", email |-> "",
           password |-> "pw1", confirm_password |-> "pw1"],
          [username |-> "jane@x.com", email |-> "jane@x.com",
           password |-> "", confirm_password |-> ""],
          [username |-> "admin", email |-> "admin@example.com",
           password |-> None, confirm_password |-> None],
          [username |-> "jane@x.com", email |-> "jane@x.com",
           password |-> "pw1", confirm_password |-> "admin123"]}

BlankAdminForm ==
    [username |-> None, email |-> None, password |-> None, confirm_password |-> None]

StatusInputs == {None, "", "active", "inactive", "frozen"}

ValidCustomerForms ==
    [full_name : {"Jane Doe"},
     email : {"jane@x.com", "admin@example.com"},
     password : {"pw1"},
     confirm_password : {"pw1"},
     account_type : {"savings"},
     balance : {"100"},
     status : StatusInputs]

JaneForm ==
    [full_name |-> "Jane Doe", email |-> "jane@x.com", password |-> "pw1",
     confirm_password |-> "pw1", account_type |-> "savings", balance |-> "100",
     status |-> "active"]

BlankCustomerForm ==
    [full_name |-> None, email |-> None, password |-> None, confirm_password |-> None,
     account_type |-> None, balance |-> None, status |-> None]

CustomerForms ==
    ValidCustomerForms
    \cup {[JaneForm EXCEPT !.full_name = ""],
          [JaneForm EXCEPT !.account_type = None],
          [JaneForm EXCEPT !.password = "", !.confirm_password = ""],
          [JaneForm EXCEPT !.confirm_password = "admin123"],
          [JaneForm EXCEPT !.balance = "abc"],
          [JaneForm EXCEPT !.balance = "abc", !.email = ""]}

\* ---------------------------------------------------------------- actions

\* The tables stay within the keys and the digests the model hands out.
WithinBounds(r) ==
    /\ \A a \in r.admins : a.id <= MaxId
    /\ \A k \in r.customers : k.id <= MaxId
    /\ \A n \in SaltsOf(r.admins, r.customers) : n <= MaxDigests

\* The response of a request is sent: it is the last answer, and the
\* client's cookie is replaced by the session object of the request when the
\* handler modified it.
Send(client, r) ==
    /\ session' = [session EXCEPT ![client] = IF r.modified THEN r.session ELSE @]
    /\ resp' = r.resp

\* The database is as the statements of outcome r left it.
Store(r) ==
    /\ WithinBounds(r)
    /\ admins' = r.admins
    /\ customers' = r.customers
    /\ drawn' = DrawnAfter(r.admins, r.customers)

\* The request of outcome r has run all its statements and is answered.
Deliver(r) ==
    /\ running
    /\ Store(r)
    /\ Send(r.client, r)
    /\ UNCHANGED <<running, inflight>>

\* Request q arrives: either it runs to its answer with no step of another
\* request in between, or the first thread that holds no request takes it
\* and keeps it, its cookie read and its view function not yet started,
\* while other requests are served.
Serve(q) ==
    \/ Deliver(Run(Draw(q, FreshSalt), admins, customers))
    \/ \E t \in Threads :
        /\ running
        /\ inflight[t] = Idle
        /\ \A u \in Threads : inflight[u] = Idle => t <= u
        /\ inflight' = [inflight EXCEPT ![t] = q]
        /\ UNCHANGED <<admins, customers, session, resp, running, drawn>>

\* Thread t goes on with the request it holds: the view function runs up to
\* and including its next database statement, or, once it has returned, the
\* response is sent.
Resume(t) ==
    /\ running
    /\ IF inflight[t].pc = "return"
       THEN /\ Send(inflight[t].client, inflight[t])
            /\ inflight' = [inflight EXCEPT ![t] = Idle]
            /\ UNCHANGED <<admins, customers, running, drawn>>
       ELSE LET r == Handle(Draw(inflight[t], FreshSalt), admins, customers)
            IN  /\ Store(r)
                /\ inflight' = [inflight EXCEPT ![t] =
                        IF r.next = Idle THEN Returned(inflight[t], r)
                                         ELSE Draw(r.next, 0)]
                /\ UNCHANGED <<session, resp, running>>

\* The decorators of the admin routes let client c's request reach the view.
ReachesView(c) ==
    Run(SimpleRequest(c, "admin_dashboard"), admins, customers).resp
        = Render("admin/dashboard.html")

\* One action for each route.  A GET never reads the form, and neither does
\* a request the decorators stop, which read nothing but the cookie the
\* request arrives with: one request stands for each of these, whatever
\* form it carries.
Index == \E c \in Clients : Serve(SimpleRequest(c, "index"))

LoginWith(usernames, passwords) == \E c \in Clients :
    \/ Serve(LoginRequest(c, "GET", None, None))
    \/ \E u \in usernames, p \in passwords : Serve(LoginRequest(c, "POST", u, p))

Login == LoginWith(Identifiers, Passwords)

Logout == \E c \in Clients : Serve(SimpleRequest(c, "logout"))

Dashboard == \E c \in Clients : Serve(SimpleRequest(c, "dashboard"))

CustomerDashboard == \E c \in Clients : Serve(SimpleRequest(c, "customer_dashboard"))

AdminDashboard == \E c \in Clients : Serve(SimpleRequest(c, "admin_dashboard"))

AdminList == \E c \in Clients : Serve(SimpleRequest(c, "admin_list"))

AdminAddWith(forms) == \E c \in Clients :
    \/ Serve(AdminAddRequest(c, "GET", BlankAdminForm))
    \/ /\ ~ReachesView(c)
       /\ Serve(AdminAddRequest(c, "POST", BlankAdminForm))
    \/ /\ ReachesView(c)
       /\ \E f \in forms : Serve(AdminAddRequest(c, "POST", f))

AdminAdd == AdminAddWith(AdminForms)

AdminEditWith(forms) == \E c \in Clients, id \in Ids :
    \/ Serve(AdminEditRequest(c, id, "GET", BlankAdminForm))
    \/ /\ ~ReachesView(c)
       /\ Serve(AdminEditRequest(c, id, "POST", BlankAdminForm))
    \/ /\ ReachesView(c)
       /\ \E f \in forms : Serve(AdminEditRequest(c, id, "POST", f))

AdminEdit == AdminEditWith(AdminForms)

AdminDelete == \E c \in Clients, id \in Ids : Serve(AdminDeleteRequest(c, id))

CustomerList == \E c \in Clients : Serve(SimpleRequest(c, "customer_list"))

CustomerAddWith(forms) == \E c \in Clients :
    \/ Serve(CustomerAddRequest(c, "GET", BlankCustomerForm, AccountNumberLow))
    \/ /\ ~ReachesView(c)
       /\ Serve(CustomerAddRequest(c, "POST", BlankCustomerForm, AccountNumberLow))
    \/ /\ ReachesView(c)
       /\ \E f \in forms, n \in AccountNumbers :
            Serve(CustomerAddRequest(c, "POST", f, n))

CustomerAdd == CustomerAddWith(CustomerForms)

CustomerEditWith(forms) == \E c \in Clients, id \in Ids :
    \/ Serve(CustomerEditRequest(c, id, "GET", BlankCustomerForm))
    \/ /\ ~ReachesView(c)
       /\ Serve(CustomerEditRequest(c, id, "POST", BlankCustomerForm))
    \/ /\ ReachesView(c)
       /\ \E f \in forms : Serve(CustomerEditRequest(c, id, "POST", f))

CustomerEdit == CustomerEditWith(CustomerForms)

CustomerDelete == \E c \in Clients, id \in Ids : Serve(CustomerDeleteRequest(c, id))

\* A thread goes on with the request it holds, whatever its route.
Proceed == \E t \in Threads : inflight[t] # Idle /\ Resume(t)

\* The process is restarted: the threads and their requests are gone, and the
\* module-level code runs again on the existing database with a fresh
\* SECRET_KEY, so no cookie signed before verifies and every client's session
\* loads empty.
Startup ==
    LET r == seed(admins, FreshSalt)
    IN  /\ \A a \in r.table : a.id <= MaxId /\ a.password.salt <= MaxDigests
        /\ admins' = r.table
        /\ drawn' = DrawnAfter(r.table, customers)
        /\ running' = r.ok
        /\ session' = [c \in Clients |-> EmptySession]
        /\ resp' = NoResponse
        /\ inflight' = [t \in Threads |-> Idle]
        /\ UNCHANGED customers

\* The state after the first import on an empty database, with the given
\* clients holding no cookie yet and the given threads holding no request.
InitWith(clients, threads) ==
    /\ admins = seed({}, 1).table
    /\ customers = {}
    /\ session = [c \in clients |-> EmptySession]
    /\ resp = NoResponse
    /\ running = TRUE
    /\ inflight = [t \in threads |-> Idle]
    /\ drawn = 1

Init == InitWith({"c1", "c2"}, {1, 2})

Next ==
    \/ Index \/ Login \/ Logout \/ Dashboard \/ CustomerDashboard
    \/ AdminDashboard \/ AdminList \/ AdminAdd \/ AdminEdit \/ AdminDelete
    \/ CustomerList \/ CustomerAdd \/ CustomerEdit \/ CustomerDelete
    \/ Proceed
    \/ Startup

Spec == Init /\ [][Next]_vars

\* ------------------------------------------------- focused specifications
\*
\* Every specification below has one thread: a request is either run from
\* arrival to response with nothing in between, or held by the thread at
\* any of its places while other requests are served.  The specifications
\* differ in the routes they serve and in the forms they submit.

\* Rows as the handlers store them, for initial states that start from a
\* database the application has already filled; salt numbers the digest.
AdminRow(id, form, salt) ==
    [id |-> id, username |-> form.username, email |-> form.email,
     password |-> generate_password_hash(form.password, salt)]

CustomerRow(id, form, n, salt) ==
    [id |-> id, full_name |-> form.full_name, email |-> form.email,
     password |-> generate_password_hash(form.password, salt),
     bank_account_number |-> FormatAccountNumber(n),
     account_type |-> form.account_type, balance |-> ParseFloat(form.balance),
     status |-> IF Falsy(form.status) THEN "active" ELSE form.status]

SeededAdmins == seed({}, 1).table

\* The session of the seeded administrator after its login.
SeededSession == Establish(EmptySession, 1, "admin", "admin")

\* Logins with the pairs of the seeded administrator and of Jane, and with
\* each one's name and the other's password.
LoginStored == LoginWith({"admin", "jane@x.com"}, {"admin123", "pw1"})
LoginJane == LoginWith({"jane@x.com"}, {"pw1"})

\* An administrator whose username and email are Jane's email.
RaceAdminAddForms ==
    {[username |-> "jane@x.com", email |-> "jane@x.com",
      password |-> "pw1", confirm_password |-> "pw1"]}

RaceCustomerForms ==
    {JaneForm, [JaneForm EXCEPT !.email = "admin@example.com", !.status = "inactive"]}

AdminAddRace == AdminAddWith(RaceAdminAddForms)
CustomerAddRace == CustomerAddWith(RaceCustomerForms)
CustomerAddJane == CustomerAddWith({JaneForm})

\* The administrators' table: logins, creation of a second administrator and
\* deletions.  Primary keys are reused and the table can be emptied.
InitAdmins == InitWith({"c1", "c2"}, {1})

NextAdmins == LoginStored \/ AdminAddRace \/ AdminDelete \/ Proceed

SpecAdmins == InitAdmins /\ [][NextAdmins]_vars

\* The customers' status: one client logged in as the seeded administrator
\* creates Jane with a status of the form and sets her status, while the
\* other client logs in with her email and password.
StatusCustomerForms ==
    {[JaneForm EXCEPT !.status = s] : s \in {"active", "inactive", "frozen"}}

StatusUpdateForms ==
    {[JaneForm EXCEPT !.password = "", !.confirm_password = "", !.status = s] :
        s \in {"active", "inactive", None}}

CustomerAddStatus == CustomerAddWith(StatusCustomerForms)
CustomerEditStatus == CustomerEditWith(StatusUpdateForms)

InitCustomers ==
    /\ admins = SeededAdmins
    /\ customers = {}
    /\ session = [c \in {"c1", "c2"} |-> IF c = "c1" THEN SeededSession ELSE EmptySession]
    /\ resp = Redirect("admin_dashboard", "Welcome, Admin!")
    /\ running = TRUE
    /\ inflight = [t \in {1} |-> Idle]
    /\ drawn = 1

NextCustomers == LoginJane \/ CustomerAddStatus \/ CustomerEditStatus \/ Proceed

SpecCustomers == InitCustomers /\ [][NextCustomers]_vars

\* The customer forms that carry status 'active'.
ActiveCustomerForms == {f \in CustomerForms : f.status = "active"}

\* Two clients logged in as the seeded administrator and one thread: a create
\* or delete request is held at any of its places while other requests are
\* served, with a few forms each.
InitRace ==
    /\ admins = SeededAdmins
    /\ customers = {}
    /\ session = [c \in {"c1", "c2"} |-> SeededSession]
    /\ resp = Redirect("admin_dashboard", "Welcome, Admin!")
    /\ running = TRUE
    /\ inflight = [t \in {1} |-> Idle]
    /\ drawn = 1

NextRace ==
    \/ AdminAddRace \/ AdminDelete \/ CustomerAddRace \/ CustomerDelete
    \/ Proceed

SpecRace == InitRace /\ [][NextRace]_vars

\* Unique fields, from the same initial state: the two clients create
\* administrators and customers with forms that collide, each with a draw
\* of the account number, and no row is deleted.
NextCrud == AdminAddRace \/ CustomerAddRace \/ Proceed

SpecCrud == InitRace /\ [][NextCrud]_vars

\* One client logged in as the seeded administrator and one thread, with two
\* administrators and a customer stored: an update request runs statement by
\* statement while other update requests of the same session are served.
\* The forms rename a row with the password left blank, and set a password
\* with the seeded administrator's name and email.
RaceAdminEditForms ==
    {[username |-> "root", email |-> "root@x.com",
      password |-> "", confirm_password |-> ""],
     [username |-> "admin", email |-> "admin@example.com",
      password |-> "pw1", confirm_password |-> "pw1"]}

RaceCustomerEditForms ==
    {[JaneForm EXCEPT !.password = "", !.confirm_password = "", !.status = "inactive"],
     [JaneForm EXCEPT !.email = "admin@example.com"]}

AdminEditRace == AdminEditWith(RaceAdminEditForms)
CustomerEditRace == CustomerEditWith(RaceCustomerEditForms)

InitEditRace ==
    /\ admins = SeededAdmins \cup {AdminRow(2, [username |-> "jane@x.com",
                                                email |-> "jane@x.com",
                                                password |-> "pw1"], 2)}
    /\ customers = {CustomerRow(1, JaneForm, AccountNumberLow, 3)}
    /\ session = [c \in {"c1"} |-> SeededSession]
    /\ resp = Redirect("admin_dashboard", "Welcome, Admin!")
    /\ running = TRUE
    /\ inflight = [t \in {1} |-> Idle]
    /\ drawn = 3

NextEditRace == AdminEditRace \/ CustomerEditRace \/ Proceed

SpecEditRace == InitEditRace /\ [][NextEditRace]_vars

\* One client logged in as the seeded administrator, one that holds no
\* cookie, and one thread: logins with Jane's email and password run
\* statement by statement while an administrator with her email as username
\* and Jane herself are added.
LoginRaceAdminForms ==
    RaceAdminAddForms
    \cup {[username |-> "jane@x.com", email |-> "jane@x.com",
           password |-> "admin123", confirm_password |-> "admin123"]}

AdminAddLoginRace == AdminAddWith(LoginRaceAdminForms)

InitLoginRace ==
    /\ admins = SeededAdmins
    /\ customers = {}
    /\ session = [c \in {"c1", "c2"} |-> IF c = "c1" THEN SeededSession ELSE EmptySession]
    /\ resp = Redirect("admin_dashboard", "Welcome, Admin!")
    /\ running = TRUE
    /\ inflight = [t \in {1} |-> Idle]
    /\ drawn = 1

NextLoginRace == LoginJane \/ AdminAddLoginRace \/ CustomerAddJane \/ Proceed

SpecLoginRace == InitLoginRace /\ [][NextLoginRace]_vars

\* Two clients that hold no cookie and one thread, with the seeded
\* administrator and one customer stored and no route that writes a table:
\* logins, logouts and the pages are held at any of their places while
\* other requests are served, so that a response can carry the session its
\* request arrived with after the client's cookie has changed.
InitSessions ==
    /\ admins = SeededAdmins
    /\ customers = {CustomerRow(1, JaneForm, AccountNumberLow, 2)}
    /\ session = [c \in {"c1", "c2"} |-> EmptySession]
    /\ resp = NoResponse
    /\ running = TRUE
    /\ inflight = [t \in {1} |-> Idle]
    /\ drawn = 2

NextSessions ==
    \/ LoginStored \/ Logout \/ Dashboard \/ CustomerDashboard
    \/ AdminDashboard \/ AdminList \/ CustomerList \/ Proceed

SpecSessions == InitSessions /\ [][NextSessions]_vars

\* The access gate, from the same initial state: both clients log in as the
\* administrator or as the customer and log out, while the landing page is
\* requested and the customer's deletion, an administrators' route that
\* writes a table, is requested with whatever cookie the client holds.
NextGate == Index \/ LoginStored \/ Logout \/ CustomerDelete \/ Proceed

SpecGate == InitSessions /\ [][NextGate]_vars

\* The seeding, with one client: logins, updates that take the username
\* 'admin' away from the seeded row, with and without its email, deletions
\* and restarts.  A restart seeds a second administrator next to a renamed
\* one; a delete that the thread holds while the client logs in as the
\* other administrator and deletes the first empties the table, and the
\* next restart seeds it again.
SeedAdminForms ==
    {[username |-> "jane@x.com", email |-> e, password |-> "", confirm_password |-> ""] :
        e \in {"admin@example.com", "jane@x.com"}}

LoginAdmins == LoginWith({"admin", "jane@x.com"}, {"admin123"})
AdminEditSeed == AdminEditWith(SeedAdminForms)

NextSeed == LoginAdmins \/ AdminEditSeed \/ AdminDelete \/ Proceed \/ Startup

SpecSeed == InitWith({"c1"}, {1}) /\ [][NextSeed]_vars

\* ====================================================================
\* Properties
\* ====================================================================

\* The role a session carries, None when it carries none.
Role(c) == IF "user_role" \in DOMAIN session[c] THEN session[c]["user_role"] ELSE None

\* The session record a successful login leaves.
SessionOf(id, name, role) == [user_id |-> id, username |-> name, user_role |-> role]

\* The outcome of request q when it is run to its return on the current
\* tables, and the outcome of its next statement alone.
Answer(q) == Run(Draw(q, FreshSalt), admins, customers)
Step(q) == Handle(Draw(q, FreshSalt), admins, customers)

\* The client's cookie once the response of outcome r has been sent, when no
\* other response to the client is sent in between.
CookieAfter(r) == IF r.modified THEN r.session ELSE session[r.client]

\* Thread t holds a request whose view function has not returned yet.
InView(t) == inflight[t] # Idle /\ inflight[t].pc # "return"

\* The outcomes of every request client c can make to an admin operation: the
\* dashboard, the two listings and the six writes, as a GET and as a POST with
\* every form, target id and random draw of the model.
AdminRequestResults(c) ==
    {Answer(SimpleRequest(c, op)) : op \in {"admin_dashboard", "admin_list", "customer_list"}}
    \cup {Answer(AdminAddRequest(c, "GET", BlankAdminForm)),
          Answer(CustomerAddRequest(c, "GET", BlankCustomerForm, AccountNumberLow))}
    \cup {Answer(AdminAddRequest(c, "POST", f)) : f \in AdminForms}
    \cup {Answer(AdminEditRequest(c, id, "GET", BlankAdminForm)) : id \in Ids}
    \cup {Answer(AdminEditRequest(c, id, "POST", f)) : id \in Ids, f \in AdminForms}
    \cup {Answer(AdminDeleteRequest(c, id)) : id \in Ids}
    \cup {Answer(CustomerAddRequest(c, "POST", f, n)) :
            f \in CustomerForms, n \in AccountNumbers}
    \cup {Answer(CustomerEditRequest(c, id, "GET", BlankCustomerForm)) : id \in Ids}
    \cup {Answer(CustomerEditRequest(c, id, "POST", f)) : id \in Ids, f \in CustomerForms}
    \cup {Answer(CustomerDeleteRequest(c, id)) : id \in Ids}

\* The outcomes of every request client c can make to the other routes: the
\* landing page, login, logout and the two dashboards.
OtherRequestResults(c) ==
    {Answer(SimpleRequest(c, op)) :
        op \in {"index", "logout", "dashboard", "customer_dashboard"}}
    \cup {Answer(LoginRequest(c, "GET", None, None))}
    \cup {Answer(LoginRequest(c, "POST", u, p)) : u \in Identifiers, p \in Passwords}

TablesUntouched(r) == r.admins = admins /\ r.customers = customers

\* The routes that carry @login_required and @admin_required.
AdminOps ==
    {"admin_dashboard", "admin_list", "admin_add", "admin_edit", "admin_delete",
     "customer_list", "customer_add", "customer_edit", "customer_delete"}

\* The role the cookie of request q carries, None when it carries none.
CookieRole(q) == IF "user_role" \in DOMAIN q.cookie THEN q.cookie["user_role"] ELSE None

Unauthenticated == Redirect("login", "Please log in to access this page")
Unauthorized == Redirect("dashboard", "You do not have permission to access this page")

\* C1: a request to an admin operation made with no session, or with a session
\* whose role is not admin, leaves both tables as they are; and no request of
\* any kind changes a table unless its session carries role admin.  The same
\* holds of every statement of a request that a thread holds while other
\* requests are served: it changes a table only when the request goes to an
\* admin operation and the cookie it arrived with carries role admin,
\* whatever the client's cookie has become since.
C1_OnlyAdminsWrite ==
    /\ \A c \in Clients :
        /\ (session[c] = EmptySession \/ Role(c) # "admin") =>
                \A r \in AdminRequestResults(c) : TablesUntouched(r)
        /\ \A r \in OtherRequestResults(c) : TablesUntouched(r)
    /\ \A t \in Threads :
        InView(t) =>
            \/ TablesUntouched(Step(inflight[t]))
            \/ inflight[t].op \in AdminOps /\ CookieRole(inflight[t]) = "admin"

\* A customer has just been turned away from an admin operation while a
\* thread holds a request that arrived with an administrator's cookie and is
\* about to change a table, and that administrator has logged out since.
C1_Witness ==
    /\ resp = Unauthorized
    /\ \E c \in Clients : Role(c) = "customer"
    /\ \E t \in Threads :
        /\ InView(t)
        /\ CookieRole(inflight[t]) = "admin"
        /\ session[inflight[t].client] = EmptySession
        /\ ~TablesUntouched(Step(inflight[t]))

\* C2: with no session every admin operation answers Unauthenticated (the
\* redirect to login), whatever the method, form or target id; with a customer
\* session every admin operation answers Unauthorized (the redirect to
\* /dashboard, which sends a customer on to the customer dashboard).  A
\* request to an admin operation that a thread holds is answered by its
\* first step in the same way, by the cookie it arrived with, and has passed
\* both checks when it stands at any later place of its view.
C2_GateOrder ==
    /\ \A c \in Clients :
        /\ session[c] = EmptySession =>
                \A r \in AdminRequestResults(c) : r.resp = Unauthenticated
        /\ ("user_id" \in DOMAIN session[c] /\ Role(c) = "customer") =>
                /\ \A r \in AdminRequestResults(c) : r.resp = Unauthorized
                /\ Answer(SimpleRequest(c, "dashboard")).resp
                        = Redirect("customer_dashboard", "")
                /\ Answer(SimpleRequest(c, "customer_dashboard")).resp
                        = Render("customer/dashboard.html")
    /\ \A t \in Threads :
        (InView(t) /\ inflight[t].op \in AdminOps) =>
            LET q == inflight[t]
                r == Step(q)
            IN  /\ q.cookie = EmptySession =>
                    r.next = Idle /\ r.resp = Unauthenticated /\ TablesUntouched(r)
                /\ ("user_id" \in DOMAIN q.cookie /\ CookieRole(q) = "customer") =>
                    r.next = Idle /\ r.resp = Unauthorized /\ TablesUntouched(r)
                /\ q.pc # "start" =>
                    "user_id" \in DOMAIN q.cookie /\ CookieRole(q) = "admin"

\* One client holds a customer session and was answered Unauthorized, the
\* other holds no session and is answered Unauthenticated on the same route,
\* while a thread holds a request to an admin operation that arrived without
\* a cookie from the client that is a customer now.
C2_Witness ==
    /\ resp = Unauthorized
    /\ \E c, d \in Clients :
        /\ Role(c) = "customer"
        /\ session[d] = EmptySession
        /\ Answer(AdminDeleteRequest(d, 1)).resp = Unauthenticated
        /\ Answer(AdminDeleteRequest(c, 1)).resp = Unauthorized
        /\ \E t \in Threads :
            /\ InView(t)
            /\ inflight[t].op \in AdminOps
            /\ inflight[t].client = c
            /\ inflight[t].cookie = EmptySession

\* C3: for every stored administrator, a login with its username and the
\* password its hash was made from establishes the admin session of that
\* administrator, whatever the customers table holds; the administrator is
\* found by the first statement of the request, the Admin query, and the view
\* returns with the session set without another statement.  A login that a
\* thread holds before its Admin query while administrators and customers
\* are stored does the same with the tables as they are when the query runs.
C3_AdminLogin ==
    /\ \A c \in Clients, a \in admins, p \in Passwords :
        check_password_hash(a.password, p) =>
            LET q == LoginRequest(c, "POST", a.username, p)
                r == Step(q)
            IN  /\ r.next = Idle
                /\ r = Answer(q)
                /\ CookieAfter(r) = SessionOf(a.id, a.username, "admin")
                /\ r.resp = Redirect("admin_dashboard", "Welcome, Admin!")
                /\ TablesUntouched(r)
    /\ \A t \in Threads, a \in admins :
        (/\ inflight[t].op = "login" /\ inflight[t].pc = "start"
         /\ inflight[t].method = "POST"
         /\ inflight[t].username = a.username
         /\ check_password_hash(a.password, inflight[t].password)) =>
            LET r == Step(inflight[t])
            IN  /\ r.next = Idle
                /\ r.modified
                /\ r.session = SessionOf(a.id, a.username, "admin")
                /\ r.resp = Redirect("admin_dashboard", "Welcome, Admin!")
                /\ TablesUntouched(r)

\* An administrator whose username is a customer's email, with that
\* customer's password, has logged in and holds the admin session, and a
\* thread holds a login with the same pair that has not run its Admin query
\* yet.
C3_Witness ==
    /\ resp = Redirect("admin_dashboard", "Welcome, Admin!")
    /\ \E c \in Clients, a \in admins, k \in customers :
        /\ a.username = k.email
        /\ check_password_hash(a.password, k.password.plain)
        /\ k.status = "active"
        /\ session[c] = SessionOf(a.id, a.username, "admin")
        /\ \E t \in Threads :
            /\ inflight[t].op = "login" /\ inflight[t].pc = "start"
            /\ inflight[t].method = "POST"
            /\ inflight[t].username = a.username
            /\ check_password_hash(a.password, inflight[t].password)

InvalidCredentials ==
    RenderFlash("login.html", "Invalid credentials or inactive account")

\* The administrators whose username and password are the submitted pair.
AdminsMatching(u, p) ==
    {a \in admins : a.username = u /\ check_password_hash(a.password, p)}

\* A login request of client c that has run its Admin query without a match
\* and has its Customer query next.
LoginAtCustomerQuery(c, u, p) == [LoginRequest(c, "POST", u, p) EXCEPT !.pc = "customer"]

\* C4 as stated: for every active customer, a login with its email and its
\* password establishes the customer session of that customer, whatever the
\* admins table holds.
C4_CustomerLoginAlways ==
    \A c \in Clients, k \in customers, p \in Passwords :
        (k.status = "active" /\ check_password_hash(k.password, p)) =>
            LET r == Answer(LoginRequest(c, "POST", k.email, p))
            IN  /\ CookieAfter(r) = SessionOf(k.id, k.full_name, "customer")
                /\ r.resp = Redirect("customer_dashboard", "Welcome, Customer!")

\* C4 amended: for every active customer, a login with its email and its
\* password establishes the customer session of that customer unless its
\* first query finds an administrator with that email as username and that
\* same password; then the login establishes that administrator's admin
\* session.  An administrator with the same username and another password
\* changes nothing, and neither does one that is stored after the login's
\* first query: a login that has passed its Admin query and finds the active
\* customer with the matching password establishes the customer session.
C4_CustomerLogin ==
    /\ \A c \in Clients, k \in customers, p \in Passwords :
        (k.status = "active" /\ check_password_hash(k.password, p)) =>
            LET q == LoginRequest(c, "POST", k.email, p)
                r == Answer(q)
                later == Step(LoginAtCustomerQuery(c, k.email, p))
            IN  /\ IF AdminsMatching(k.email, p) = {}
                   THEN /\ Step(q).next = LoginAtCustomerQuery(c, k.email, p)
                        /\ CookieAfter(r) = SessionOf(k.id, k.full_name, "customer")
                        /\ r.resp = Redirect("customer_dashboard", "Welcome, Customer!")
                        /\ TablesUntouched(r)
                   ELSE /\ \E a \in AdminsMatching(k.email, p) :
                                CookieAfter(r) = SessionOf(a.id, a.username, "admin")
                        /\ r.resp = Redirect("admin_dashboard", "Welcome, Admin!")
                        /\ TablesUntouched(r)
                /\ CookieAfter(later) = SessionOf(k.id, k.full_name, "customer")
                /\ later.resp = Redirect("customer_dashboard", "Welcome, Customer!")
    /\ \A t \in Threads :
        (inflight[t].op = "login" /\ inflight[t].pc = "customer") =>
            \A k \in customers :
                (/\ k.email = inflight[t].username
                 /\ k.status = "active"
                 /\ check_password_hash(k.password, inflight[t].password)) =>
                    LET r == Step(inflight[t])
                    IN  /\ r.next = Idle
                        /\ r.session = SessionOf(k.id, k.full_name, "customer")
                        /\ r.modified
                        /\ r.resp = Redirect("customer_dashboard", "Welcome, Customer!")
                        /\ TablesUntouched(r)

\* A customer has logged in with its email while an administrator with that
\* email as username, and another password, is stored.
C4_Witness ==
    /\ resp = Redirect("customer_dashboard", "Welcome, Customer!")
    /\ \E c \in Clients, k \in customers, a \in admins :
        /\ k.status = "active"
        /\ a.username = k.email
        /\ ~check_password_hash(a.password, k.password.plain)
        /\ session[c] = SessionOf(k.id, k.full_name, "customer")

\* C5: a login answers with the customer welcome only for a customer whose
\* status is 'active' when the login's Customer query runs; and a login with
\* the email of a customer whose status is anything else, when no
\* administrator has that pair, ends with the single 'invalid credentials or
\* inactive account' notice and the session as it was.  The same holds of
\* every login that a thread holds while customers are created and
\* updated: the step that runs its Customer query sets a customer session
\* only for a customer stored with status 'active' at that step, and ends
\* with the notice and no session set when the customer's status is
\* anything else at that step.
C5_OnlyActiveCustomers ==
  /\ \A t \in Threads :
        (inflight[t].op = "login" /\ InView(t)) =>
            LET q == inflight[t]
                r == Step(q)
            IN  /\ (r.modified /\ r.session # q.cookie) =>
                    \/ \E a \in admins :
                            /\ q.pc = "start"
                            /\ r.session = SessionOf(a.id, a.username, "admin")
                    \/ \E k \in customers :
                            /\ q.pc = "customer"
                            /\ k.email = q.username
                            /\ k.status = "active"
                            /\ r.session = SessionOf(k.id, k.full_name, "customer")
                            /\ r.resp = Redirect("customer_dashboard", "Welcome, Customer!")
                /\ \A k \in customers :
                    (q.pc = "customer" /\ k.email = q.username /\ k.status # "active") =>
                        /\ r.next = Idle
                        /\ r.resp = InvalidCredentials
                        /\ r.session = q.cookie
  /\ \A c \in Clients, u \in Identifiers, p \in Passwords :
        LET r == Answer(LoginRequest(c, "POST", u, p))
            later == Step(LoginAtCustomerQuery(c, u, p))
        IN  /\ r.resp = Redirect("customer_dashboard", "Welcome, Customer!") =>
                    \E k \in customers :
                        /\ k.email = u
                        /\ k.status = "active"
                        /\ CookieAfter(r) = SessionOf(k.id, k.full_name, "customer")
            /\ later.resp = Redirect("customer_dashboard", "Welcome, Customer!") =>
                    \E k \in customers :
                        /\ k.email = u
                        /\ k.status = "active"
                        /\ CookieAfter(later) = SessionOf(k.id, k.full_name, "customer")
            /\ \A k \in customers :
                    (k.email = u /\ k.status # "active") =>
                        /\ r.resp # Redirect("customer_dashboard", "Welcome, Customer!")
                        /\ later.resp = InvalidCredentials
                        /\ CookieAfter(later) = session[c]
                        /\ AdminsMatching(u, p) = {} =>
                                r.resp = InvalidCredentials /\ CookieAfter(r) = session[c]

\* An inactive customer's correct email and password were refused: the
\* client is not logged in, the only customer is inactive, and the last
\* answer is the failure notice; and a thread holds a login with the same
\* pair that has run its Admin query and has its Customer query next.
C5_Witness ==
    /\ resp = InvalidCredentials
    /\ \E k \in customers :
        /\ customers = {k}
        /\ k.status = "inactive"
        /\ check_password_hash(k.password, "pw1")
        /\ \E c \in Clients :
            /\ session[c] = EmptySession
            /\ Answer(LoginRequest(c, "POST", k.email, "pw1")).resp = InvalidCredentials
        /\ \E t \in Threads :
            /\ inflight[t].op = "login" /\ inflight[t].pc = "customer"
            /\ inflight[t].username = k.email
            /\ inflight[t].password = "pw1"

\* C6: a delete-admin request made with an admin session is refused, and the
\* admins table left as it is, when the target id is the session's user_id;
\* when the target is another existing administrator that row, and only that
\* row, is removed.  A request that targets the id of its own session
\* returns after its first statement, the lookup of the row.  Of the delete
\* requests a thread holds while administrators are created and deleted,
\* one that targets the user_id of the cookie it arrived with leaves the
\* table as it is, none stands at its DELETE with such a target, and the
\* DELETE removes the row of the target id and no other.
C6_SelfDeleteGuard ==
  /\ \A t \in Threads :
        (inflight[t].op = "admin_delete" /\ InView(t) /\ CookieRole(inflight[t]) = "admin") =>
            LET q == inflight[t]
                r == Step(q)
            IN  /\ q.id = q.cookie["user_id"] =>
                    /\ q.pc = "start"
                    /\ r.next = Idle
                    /\ TablesUntouched(r)
                /\ q.pc = "delete" =>
                    /\ r.next = Idle
                    /\ r.admins = admins \ Get(admins, q.id)
                    /\ r.customers = customers
                    /\ r.resp = Redirect("admin_list", "Admin deleted successfully")
  /\ \A c \in Clients :
        Role(c) = "admin" =>
            \A id \in Ids :
                LET q == AdminDeleteRequest(c, id)
                    r == Answer(q)
                IN  /\ id = session[c]["user_id"] =>
                        /\ Step(q).next = Idle
                        /\ r.admins = admins
                        /\ r.customers = customers
                        /\ IF Found(Get(admins, id))
                           THEN r.resp = Redirect("admin_list",
                                                  "You cannot delete your own account")
                           ELSE r.resp = NotFound
                    /\ (id # session[c]["user_id"] /\ Found(Get(admins, id))) =>
                        /\ r.admins = admins \ Get(admins, id)
                        /\ Cardinality(r.admins) = Cardinality(admins) - 1
                        /\ r.customers = customers
                        /\ r.resp = Redirect("admin_list", "Admin deleted successfully")

\* An administrator asked to delete its own row and was refused, with a
\* second administrator stored under a primary key that an earlier row had,
\* while a thread holds a delete of that key at its DELETE.
C6_Witness ==
    /\ resp = Redirect("admin_list", "You cannot delete your own account")
    /\ Cardinality(admins) = 2
    /\ \E a \in admins : a.password.salt > a.id + 1
    /\ \E c \in Clients :
        /\ Role(c) = "admin"
        /\ Found(Get(admins, session[c]["user_id"]))
    /\ \E t \in Threads :
        /\ inflight[t].op = "admin_delete" /\ inflight[t].pc = "delete"
        /\ Found(Get(admins, inflight[t].id))

Filled(x) == x # None /\ x # ""

UniqueAdmins(t) ==
    \A a, b \in t : a # b => (a.username # b.username /\ a.email # b.email)

UniqueCustomers(t) == \A a, b \in t : a # b => a.email # b.email

\* C7 as stated: no two administrators share a username or an email and no
\* two customers share an email; every create of an administrator whose
\* username or email is stored, and every create of a customer whose email is
\* stored, leaves both tables as they are and is answered with the notice
\* naming the colliding field, whatever else the form carries.
C7_UniquenessAsStated ==
    /\ UniqueAdmins(admins)
    /\ UniqueCustomers(customers)
    /\ \A c \in Clients : Role(c) = "admin" =>
        /\ \A f \in AdminForms :
            LET r == Answer(AdminAddRequest(c, "POST", f))
                byUsername == \E a \in admins : a.username = f.username
                byEmail == \E a \in admins : a.email = f.email
            IN  (byUsername \/ byEmail) =>
                    /\ TablesUntouched(r)
                    /\ r.resp = Redirect("admin_add",
                                    IF byUsername THEN "Username already exists"
                                                  ELSE "Email already exists")
        /\ \A f \in CustomerForms, n \in AccountNumbers :
            LET r == Answer(CustomerAddRequest(c, "POST", f, n))
            IN  (\E k \in customers : k.email = f.email) =>
                    /\ TablesUntouched(r)
                    /\ r.resp = Redirect("customer_add", "Email already exists")

\* C7 amended: with requests served one after the other, no two administrators share
\* a username or an email and no two customers share an email; a create or
\* update that would collide with another row leaves both tables as they are
\* and, once the form has passed the required-field and confirmation checks
\* that the handlers run first, is answered with the notice naming the
\* colliding field (the username when both collide); an update that collides
\* with no other row, its own values included, is accepted.
C7_Uniqueness ==
    /\ UniqueAdmins(admins)
    /\ UniqueCustomers(customers)
    /\ \A c \in Clients : Role(c) = "admin" =>
        /\ \A f \in AdminForms :
            LET r == Answer(AdminAddRequest(c, "POST", f))
                byUsername == \E a \in admins : a.username = f.username
                byEmail == \E a \in admins : a.email = f.email
            IN  (byUsername \/ byEmail) =>
                    /\ TablesUntouched(r)
                    /\ (/\ Filled(f.username) /\ Filled(f.email) /\ Filled(f.password)
                        /\ f.password = f.confirm_password) =>
                            r.resp = Redirect("admin_add",
                                        IF byUsername THEN "Username already exists"
                                                      ELSE "Email already exists")
        /\ \A id \in Ids, f \in AdminForms :
            LET r == Answer(AdminEditRequest(c, id, "POST", f))
                byUsername == \E a \in admins : a.id # id /\ a.username = f.username
                byEmail == \E a \in admins : a.id # id /\ a.email = f.email
            IN  Found(Get(admins, id)) =>
                    /\ (byUsername \/ byEmail) =>
                        /\ TablesUntouched(r)
                        /\ (Filled(f.username) /\ Filled(f.email)) =>
                                r.resp = Redirect("admin_edit",
                                            IF byUsername THEN "Username already exists"
                                                          ELSE "Email already exists")
                    /\ (~byUsername /\ ~byEmail /\ Filled(f.username) /\ Filled(f.email)) =>
                        /\ r.resp = Redirect("admin_list", "Admin updated successfully")
                        /\ \E a \in r.admins :
                                a.id = id /\ a.username = f.username /\ a.email = f.email
        /\ \A f \in CustomerForms, n \in AccountNumbers :
            LET r == Answer(CustomerAddRequest(c, "POST", f, n))
            IN  (\E k \in customers : k.email = f.email) =>
                    /\ TablesUntouched(r)
                    /\ (/\ Filled(f.full_name) /\ Filled(f.email) /\ Filled(f.account_type)
                        /\ Filled(f.password) /\ f.password = f.confirm_password
                        /\ FloatParses(f.balance)) =>
                            r.resp = Redirect("customer_add", "Email already exists")
        /\ \A id \in Ids, f \in CustomerForms :
            LET r == Answer(CustomerEditRequest(c, id, "POST", f))
                byEmail == \E k \in customers : k.id # id /\ k.email = f.email
                complete == /\ Filled(f.full_name) /\ Filled(f.email)
                            /\ Filled(f.account_type) /\ FloatParses(f.balance)
                            /\ (Filled(f.password) => f.password = f.confirm_password)
            IN  Found(Get(customers, id)) =>
                    /\ byEmail =>
                        /\ TablesUntouched(r)
                        /\ complete =>
                            r.resp = Redirect("customer_edit", "Email already exists")
                    /\ (~byEmail /\ complete) =>
                        /\ r.resp = Redirect("customer_list", "Customer updated successfully")
                        /\ \E k \in r.customers : k.id = id /\ k.email = f.email

\* A create or update of an administrator was refused for its username while
\* two administrators and two customers are stored.
C7_Witness ==
    /\ resp.flash = "Username already exists"
    /\ Cardinality(admins) = 2
    /\ Cardinality(customers) = 2

\* C8 as stated: every create-customer request that passes the field
\* validation and the email check stores a new customer whose account number
\* differs from that of every customer already stored.
C8_AccountNumberNeverCollides ==
    \A c \in Clients : Role(c) = "admin" =>
        \A f \in CustomerForms, n \in AccountNumbers :
            LET r == Answer(CustomerAddRequest(c, "POST", f, n))
            IN  (/\ Filled(f.full_name) /\ Filled(f.email) /\ Filled(f.account_type)
                 /\ Filled(f.password) /\ f.password = f.confirm_password
                 /\ FloatParses(f.balance)
                 /\ ~\E k \in customers : k.email = f.email) =>
                    /\ r.resp = Redirect("customer_list", "Customer created successfully")
                    /\ Cardinality(r.customers) = Cardinality(customers) + 1
                    /\ \A new \in r.customers \ customers, k \in customers :
                            new.bank_account_number # k.bank_account_number

\* C9 as stated: every stored customer's status is 'active' or 'inactive'.
C9_StatusClosed ==
    \A k \in customers : k.status \in {"active", "inactive"}

\* C10 as stated: no step takes a client's session from one role or identity
\* to another; a session that is present before and after a step carries the
\* same user_role and user_id.
C10_RoleFixed ==
    [][\A c \in Clients :
            (session[c] # EmptySession /\ session'[c] # EmptySession) =>
                /\ session'[c]["user_role"] = session[c]["user_role"]
                /\ session'[c]["user_id"] = session[c]["user_id"]]_vars

\* C11 as stated: a startup inserts the default administrator exactly when the
\* admins table is empty; with at least one administrator stored, whatever its
\* username or email, the startup leaves the table as it is and does not fail.
C11_SeedOnlyWhenEmpty ==
    LET r == seed(admins, FreshSalt)
    IN  /\ r.ok
        /\ IF admins = {} THEN r.table = {default_admin({}, FreshSalt)}
                          ELSE r.table = admins

\* Update forms of the model together with the same forms submitted with the
\* password left out or empty, whatever the confirmation field carries.
AdminUpdateForms ==
    AdminForms \cup RaceAdminEditForms
    \cup {[f EXCEPT !.password = b, !.confirm_password = b] :
            f \in ValidAdminForms, b \in {None, ""}}

CustomerUpdateForms ==
    CustomerForms \cup RaceCustomerEditForms
    \cup {[f EXCEPT !.password = b, !.confirm_password = cp] :
            f \in ActiveCustomerForms \cap ValidCustomerForms,
            b \in {None, ""}, cp \in {None, "", "pw1"}}

\* What one statement of an update request, or the whole request, may do to
\* the row `before` of a table, given the password the request submits: the
\* row stays, a blank password leaves its hash as it is, and a hash that
\* differs afterwards is a hash of the submitted password.
HashKept(before, after, password) ==
    /\ Found(after)
    /\ Falsy(password) => First(after).password = First(before).password
    /\ First(after).password # First(before).password =>
            /\ ~Falsy(password)
            /\ check_password_hash(First(after).password, password)

\* C12: an update-admin or update-customer request never removes the row, and
\* when its password field is omitted or empty the row's stored hash after the
\* request is the hash before it; an accepted update with a non-empty password
\* stores a hash of that password.  The blank password does not stop an
\* otherwise valid update from being accepted.  The same holds of the commit
\* of an update request that loaded its row before other requests changed
\* it: the hash it leaves is the one stored just before the commit.
C12_BlankPasswordKeepsHash ==
    /\ \A c \in Clients : Role(c) = "admin" =>
        /\ \A id \in Ids, f \in AdminUpdateForms :
            LET r == Answer(AdminEditRequest(c, id, "POST", f))
            IN  Found(Get(admins, id)) =>
                    /\ HashKept(Get(admins, id), Get(r.admins, id), f.password)
                    /\ (/\ Falsy(f.password) /\ Filled(f.username) /\ Filled(f.email)
                        /\ ~\E a \in admins :
                                a.id # id /\ (a.username = f.username \/ a.email = f.email)) =>
                            r.resp = Redirect("admin_list", "Admin updated successfully")
        /\ \A id \in Ids, f \in CustomerUpdateForms :
            LET r == Answer(CustomerEditRequest(c, id, "POST", f))
            IN  Found(Get(customers, id)) =>
                    /\ HashKept(Get(customers, id), Get(r.customers, id), f.password)
                    /\ (/\ Falsy(f.password) /\ Filled(f.full_name) /\ Filled(f.email)
                        /\ Filled(f.account_type) /\ FloatParses(f.balance)
                        /\ ~\E k \in customers : k.id # id /\ k.email = f.email) =>
                            r.resp = Redirect("customer_list", "Customer updated successfully")
    /\ \A t \in Threads :
        /\ (/\ inflight[t].op = "admin_edit" /\ InView(t)
            /\ Found(Get(admins, inflight[t].id))) =>
                HashKept(Get(admins, inflight[t].id),
                         Get(Step(inflight[t]).admins, inflight[t].id),
                         inflight[t].form.password)
        /\ (/\ inflight[t].op = "customer_edit" /\ InView(t)
            /\ Found(Get(customers, inflight[t].id))) =>
                HashKept(Get(customers, inflight[t].id),
                         Get(Step(inflight[t]).customers, inflight[t].id),
                         inflight[t].form.password)

\* An update with a new password has just been accepted while a thread holds,
\* ready to commit, an update of the same administrator with a blank password
\* that loaded the row before: the hash it loaded is not the stored one.
C12_Witness ==
    /\ resp = Redirect("admin_list", "Admin updated successfully")
    /\ \E t \in Threads :
        /\ inflight[t].op = "admin_edit"
        /\ inflight[t].pc = "update"
        /\ Falsy(inflight[t].form.password)
        /\ \E a \in admins :
            /\ a.id = inflight[t].id
            /\ a.password # First(inflight[t].rows).password
            /\ check_password_hash(a.password, "pw1")

\* A session that carries identity, display name and one of the two roles.
FullSession(s) ==
    /\ DOMAIN s = SessionKeys
    /\ s["user_role"] \in {"admin", "customer"}

\* A session that is empty or full.
WellShaped(s) == s = EmptySession \/ FullSession(s)

\* C13: every client's session is either empty or carries user_id, username
\* and a user_role that is 'admin' or 'customer'; a login that succeeds leaves
\* all three set, a login that fails leaves the session as it was, logout
\* leaves it empty, and the dashboards do not touch it.  The same holds of
\* the requests the threads hold: the cookie each arrived with, the session
\* its next step leaves and the session its response will write back are
\* each empty or full.
C13_SessionShape ==
    /\ \A t \in Threads :
        /\ InView(t) =>
            /\ WellShaped(inflight[t].cookie)
            /\ WellShaped(Step(inflight[t]).session)
        /\ (inflight[t] # Idle /\ ~InView(t)) => WellShaped(inflight[t].session)
    /\ \A c \in Clients :
        /\ WellShaped(session[c])
        /\ CookieAfter(Answer(SimpleRequest(c, "logout"))) = EmptySession
        /\ \A u \in Identifiers, p \in Passwords :
            LET r == Answer(LoginRequest(c, "POST", u, p))
                later == Step(LoginAtCustomerQuery(c, u, p))
            IN  /\ IF r.resp.code = 302
                   THEN FullSession(CookieAfter(r))
                   ELSE CookieAfter(r) = session[c]
                /\ IF later.resp.code = 302
                   THEN FullSession(CookieAfter(later))
                   ELSE CookieAfter(later) = session[c]
        /\ CookieAfter(Answer(LoginRequest(c, "GET", None, None))) = session[c]
        /\ \A op \in {"dashboard", "customer_dashboard", "admin_dashboard"} :
            CookieAfter(Answer(SimpleRequest(c, op))) = session[c]

\* One client holds an administrator's session and another has just logged in
\* as a customer, while a thread holds a login whose view has returned with
\* the session of a third login.
C13_Witness ==
    /\ resp = Redirect("customer_dashboard", "Welcome, Customer!")
    /\ \E c, d \in Clients :
        /\ FullSession(session[c]) /\ session[c]["user_role"] = "admin"
        /\ FullSession(session[d]) /\ session[d]["user_role"] = "customer"
    /\ \E t \in Threads :
        /\ inflight[t].op = "login"
        /\ inflight[t].pc = "return"
        /\ FullSession(inflight[t].session)

\* C14 as stated: no two stored rows share a unique field, no request ends in
\* an unhandled error, and a create request in flight whose username or email
\* has been stored by another request since its checks is, at its commit,
\* turned back to its form with the notice naming the colliding field, the
\* tables left as they are.
C14_RaceFreeUniqueness ==
    /\ UniqueAdmins(admins)
    /\ UniqueCustomers(customers)
    /\ resp.code # 500
    /\ \A t \in Threads :
        /\ (inflight[t].op = "admin_add" /\ inflight[t].pc = "insert") =>
            LET f == inflight[t].form
                r == Step(inflight[t])
                byUsername == \E a \in admins : a.username = f.username
                byEmail == \E a \in admins : a.email = f.email
            IN  (byUsername \/ byEmail) =>
                    /\ TablesUntouched(r)
                    /\ r.resp = Redirect("admin_add",
                                    IF byUsername THEN "Username already exists"
                                                  ELSE "Email already exists")
        /\ (inflight[t].op = "customer_add" /\ inflight[t].pc = "insert") =>
            LET f == inflight[t].form
                r == Step(inflight[t])
            IN  (\E k \in customers : k.email = f.email) =>
                    /\ TablesUntouched(r)
                    /\ r.resp = Redirect("customer_add", "Email already exists")

\* C15 as stated: the admins table, which is not empty after the first
\* startup, is not empty in any state that logins, logouts and admin requests
\* lead to.
C15_AdminsNeverEmpty == admins # {}

\* The session of client c names a record that is not there any more: an
\* administrator that is not stored, or a customer that is not stored with
\* status 'active'.
Stale(c) ==
    \/ /\ Role(c) = "admin"
       /\ ~\E a \in admins : a.id = session[c]["user_id"]
    \/ /\ Role(c) = "customer"
       /\ ~\E k \in customers :
                k.id = session[c]["user_id"] /\ k.status = "active"

\* C16 as stated: no client's session is stale; and a stale session opens
\* neither the admin operations nor the customer dashboard.
C16_SessionTracksStore ==
    \A c \in Clients :
        /\ ~Stale(c)
        /\ Stale(c) =>
            /\ ~ReachesView(c)
            /\ Answer(SimpleRequest(c, "customer_dashboard")).resp
                    # Render("customer/dashboard.html")

====
